---- MODULE Spec2Model ----
(***************************************************************************)
(* Model of the rootiq4 RCA pipeline: the relational tables written by the *)
(* Enrichment, Fusion, RCA (analysis) and Agentic (deep analysis) stages,  *)
(* the drivers that run those stages (the periodic loop of main.py and the *)
(* on-demand API / CLI tasks), and the re-analysis request.                *)
(*                                                                         *)
(* Every stage opens its own SQLAlchemy session (autocommit=False,         *)
(* autoflush=False): rows it adds stay pending in the session, invisible   *)
(* to queries, until session.commit().  A stage is therefore modelled by   *)
(* its queries and its commit as separate steps, so that two drivers on    *)
(* the same database interleave at statement granularity.                  *)
(*                                                                         *)
(* Confidence and anomaly scores are floats in [0,1] in the source; here   *)
(* they are integers in hundredths (0.95 is 95).  Time is in minutes.      *)
(***************************************************************************)
EXTENDS Integers, Sequences, FiniteSets, Bags, TLC

-----------------------------------------------------------------------------
(* Bounds of the model *)

\* number of signals that are ever ingested
MaxSignals == 3
\* scaled stand-ins for the batch limits the drivers pass to
\* process_raw_events (limit=100 in main.py / run_full_pipeline / cli,
\* limit=50 in run_enrichment_step)
FullLimit == 1
StepLimit == 1
\* how often the wall clock advances by TickMinutes
MaxTicks == 1
\* number of requests the on-demand process serves (pipeline steps and
\* re-analysis requests)
MaxOnDemand == 1
\* number of cycles of the periodic loop while requests are served
MaxPeriodic == 1
\* number of re-analysis requests served beside the loop
MaxReanalyze == 2
MaxRequestId == 1
\* how often the processing of a record raises or a commit fails, where the
\* environment makes them fail at all
MaxFaults == 1
\* number of cycles of the loop while records and commits fail
MaxFaultCycles == 2
\* stand-in for a batch limit that no batch reaches (limit=100 in main.py)
WideLimit == 3
\* number of enrichment and fusion requests served beside one cycle of the
\* loop
MaxRaceRequests == 2

-----------------------------------------------------------------------------
(* Program constants *)

HistoryLimit == 100
HistoryMin == 10
LookbackMinutes == 60
CorrelationWindow == 5
TickMinutes == 45
NowStart == 50
NeutralScore == 50
LlmErrorConfidence == 10
FallbackParseConfidence == 30
InvalidConfidenceDefault == 50
MaxBoost == 30
MaxEnhancedConfidence == 95
PartialBump == 10
PartialCap == 85

Min(a, b) == IF a < b THEN a ELSE b
Max(a, b) == IF a > b THEN a ELSE b

-----------------------------------------------------------------------------
(* Signals (RawEvent rows).  The catalogue is the set of signals a client  *)
(* may send; timestamps are client supplied.                               *)

Catalog == 1 .. MaxSignals

SignalOf(s) ==
    CASE s = 1 -> [kind |-> "event", source |-> "web-1", ts |-> 10,
                   severity |-> "critical", msg |-> {"cpu", "high"},
                   meta |-> {"host", "region"}]
      [] s = 2 -> [kind |-> "event", source |-> "web-1", ts |-> 13,
                   severity |-> "high", msg |-> {"cpu", "high"},
                   meta |-> {"host"}]
      [] OTHER -> [kind |-> "log", source |-> "web-1", ts |-> 40,
                   severity |-> "low", msg |-> {"slow", "query"},
                   meta |-> {}]

SeverityGroups == {{"critical", "high"}, {"medium", "low", "info"}}

\* _events_are_related with a metadata overlap of one key
OneCommonKey(e1, e2) ==
    \/ e1.source = e2.source
    \/ \E g \in SeverityGroups : e1.severity \in g /\ e2.severity \in g
    \/ /\ e1.meta # {}
       /\ e2.meta # {}
       /\ Cardinality(e1.meta \cap e2.meta) >= 1

\* EnrichmentLayer._events_are_related, of two RawEvent rows
EventsAreRelated(e1, e2) ==
    \/ e1.source = e2.source
    \/ \E g \in SeverityGroups : e1.severity \in g /\ e2.severity \in g
    \/ /\ e1.meta # {}
       /\ e2.meta # {}
       /\ Cardinality(e1.meta \cap e2.meta) >= 2

\* EnrichmentLayer._message_similarity > 0.7, as a comparison of integers
SimilarMessages(m1, m2) ==
    /\ m1 # {}
    /\ m2 # {}
    /\ 10 * Cardinality(m1 \cap m2) > 7 * Cardinality(m1 \cup m2)

-----------------------------------------------------------------------------
(* State *)

VARIABLES
    raw,          \* raw_events: the signal ids stored
    ticks,        \* wall clock, in steps of TickMinutes
    enriched,     \* enriched_events: a bag of rows
    incidents,    \* fused_contexts: a bag of rows
    rca,          \* rca_results: a set of rows, each with its primary key
    invocations,  \* agentic_invocations: a bag of rows
    threshold,    \* config rca.confidence_threshold (0..100)
    fallback,     \* config rca.enable_agentic_fallback
    store,        \* the PatternMatcher's collection: "empty", "seeded" with
                  \* historical patterns, or "broken" (its query raises)
    faults,       \* how many more times the environment makes the processing
                  \* of one record raise or a commit fail
    calc,         \* a call of one of the pure functions of the stages: its
                  \* name, its arguments and, once applied, its result
    proc,         \* per driver process: the cycle it runs and its open session
    started,      \* per driver process: the cycles / requests counted so far
    quiet         \* how the loop's cycles relate to the other writers:
                  \*   "dirty"  another writer acted since the loop's current
                  \*            (or latest) cycle began, or no cycle has begun
                  \*   "first"  a cycle is running, undisturbed so far
                  \*   "done"   that cycle completed all its stages undisturbed
                  \*   "rerun"  the cycle that followed it is running, and it
                  \*            began with every stored signal enriched
                  \*   "catchup" the cycle that followed it is running, and it
                  \*            began with signals the batch limit had left
                  \*            unenriched

vars == <<raw, ticks, enriched, incidents, rca, invocations, threshold,
          fallback, store, faults, calc, proc, started, quiet>>

tables == <<enriched, incidents, rca, invocations>>

\* the periodic loop of main.py and the process serving API / CLI requests
Procs == {"loop", "ondemand"}

Stages == {"enrich", "fusion", "rca", "agentic"}

Thresholds == {80, 100}

Stores == {"empty", "seeded", "broken"}

Now == NowStart + ticks * TickMinutes

Range(f) == {f[i] : i \in DOMAIN f}

Idle ==
    [kind |-> "none", plan |-> <<>>, phase |-> "ready", limit |-> 0,
     abort |-> FALSE, todo |-> <<>>, pending |-> <<>>, loaded |-> {},
     rows |-> {}, failed |-> {}]

\* The cycle a driver runs: its stages in order, the enrichment batch limit
\* it passes, and whether a stage that raises ends the cycle (abort) or is
\* logged by the step wrapper so that the next step still runs.
CycleOf(kind) ==
    CASE kind = "periodic" ->
           [plan |-> <<"enrich", "fusion", "rca", "agentic">>,
            limit |-> FullLimit, abort |-> TRUE]
      [] kind = "reanalyze" ->
           [plan |-> <<"rca">>, limit |-> StepLimit, abort |-> FALSE]
      [] OTHER ->
           [plan |-> <<kind>>, limit |-> StepLimit, abort |-> FALSE]

KindsOf(p) ==
    IF p = "loop" THEN {"periodic"}
    ELSE {"enrich", "fusion", "rca", "agentic"}

Begun(kind) ==
    LET c == CycleOf(kind)
    IN  [Idle EXCEPT !.kind = kind, !.plan = c.plan, !.limit = c.limit,
                     !.abort = c.abort]

\* the session is closed and the driver moves to its next stage
StageDone(q) ==
    IF Len(q.plan) <= 1 THEN Idle
    ELSE [q EXCEPT !.plan = Tail(q.plan), !.phase = "ready", !.todo = <<>>,
                   !.pending = <<>>, !.loaded = {}, !.rows = {},
                   !.failed = {}]

\* the except branch of _run_pipeline: the error of the stage is logged and
\* the loop sleeps until its next cycle
Sleeping == [Idle EXCEPT !.phase = "raised"]

\* the stage rolled back and raised
StageFailed(q) == IF q.abort THEN Sleeping ELSE StageDone(q)

\* `except KeyboardInterrupt: break`: the loop has ended
Stopped == [Idle EXCEPT !.phase = "stopped"]

\* driver p is between two cycles
AtTop(p) == proc[p] \in {Idle, Sleeping}

MaxStarts(p) == IF p = "loop" THEN MaxPeriodic ELSE MaxOnDemand

\* bookkeeping of quiet: when p starts a cycle, when p takes a step that
\* leaves it in q, and when p's stage commits
QuietAtStart(p) ==
    IF p # "loop" THEN quiet
    ELSE IF quiet # "done" THEN "first"
    ELSE IF raw \subseteq {e.raw : e \in BagToSet(enriched)} THEN "rerun"
    ELSE "catchup"

QuietAfter(p, q) ==
    IF p # "loop" THEN "dirty"
    ELSE IF q = Sleeping THEN "dirty"
    ELSE IF q = Idle
         THEN (IF quiet \in {"first", "rerun", "catchup"} THEN "done"
               ELSE "dirty")
         ELSE quiet

AtStage(p, stage, phase) ==
    /\ proc[p].plan # <<>>
    /\ Head(proc[p].plan) = stage
    /\ proc[p].phase = phase

\* the records of a batch whose processing raises inside the per-record
\* try (caught, logged, None / False returned): any of them, as far as the
\* environment still makes records fail
Failing(batch) == {F \in SUBSET batch : Cardinality(F) <= faults}

\* whether session.commit() of a stage fails for a reason of the database
\* (the except branch of the stage: rollback, log, raise)
CommitFails == IF faults > 0 THEN BOOLEAN ELSE {FALSE}

\* no call of a pure function
NoCalc == [op |-> "none"]

\* empty tables, no driver running, and a configuration of the given set
Installed(thresholds, stores, budget) ==
    /\ raw = {}
    /\ ticks = 0
    /\ enriched = EmptyBag
    /\ incidents = EmptyBag
    /\ rca = {}
    /\ invocations = EmptyBag
    /\ threshold \in thresholds
    /\ fallback \in BOOLEAN
    /\ store \in stores
    /\ faults = budget
    /\ proc = [p \in Procs |-> Idle]
    /\ started = [p \in Procs |-> 0]
    /\ quiet = "dirty"

InitWith(thresholds, stores, budget) ==
    Installed(thresholds, stores, budget) /\ calc = NoCalc

Init == InitWith(Thresholds, {"seeded"}, 0)

-----------------------------------------------------------------------------
(* Environment *)

\* IngestionLayer.ingest_event: one RawEvent row is stored
Ingest(s) ==
    /\ s \notin raw
    /\ Cardinality(raw) < MaxSignals
    /\ raw' = raw \cup {s}
    /\ quiet' = "dirty"
    /\ UNCHANGED <<ticks, tables, threshold, fallback, store, calc, faults, proc, started>>

\* the batches a client may send: events of the catalogue, each at most once
Batches ==
    {b \in UNION {[1 .. n -> Catalog] : n \in 1 .. MaxSignals} :
        \A i, j \in DOMAIN b : i # j => b[i] # b[j]}

\* an ingest_batch whose failing commit leaves the first row behind
PartialIngest(events) ==
    /\ Range(events) \cap raw = {}
    /\ \E crash \in CommitFails :
          /\ raw' = raw \cup (IF crash THEN {events[1]} ELSE Range(events))
          /\ faults' = IF crash THEN faults - 1 ELSE faults
          /\ calc' = [op |-> "ingest_batch", events |-> events,
                      raised |-> crash,
                      out |-> IF crash THEN <<>> ELSE events]
    /\ quiet' = "dirty"
    /\ UNCHANGED <<ticks, tables, threshold, fallback, store, proc, started>>

\* IngestionLayer.ingest_batch: the rows are added in the order of the
\* events and committed together; the ids of the rows are returned in that
\* order (a stored row is identified by its signal here), or the commit
\* fails, the session is rolled back and the error re-raised
IngestBatch(events) ==
    /\ Range(events) \cap raw = {}
    /\ \E crash \in CommitFails :
          IF crash
          THEN /\ raw' = raw
               /\ faults' = faults - 1
               /\ calc' = [op |-> "ingest_batch", events |-> events,
                           raised |-> TRUE, out |-> <<>>]
          ELSE /\ raw' = raw \cup Range(events)
               /\ faults' = faults
               /\ calc' = [op |-> "ingest_batch", events |-> events,
                           raised |-> FALSE,
                           out |-> [k \in DOMAIN events |-> events[k]]]
    /\ quiet' = "dirty"
    /\ UNCHANGED <<ticks, tables, threshold, fallback, store, proc, started>>

\* datetime.utcnow() advances
Tick ==
    /\ ticks < MaxTicks
    /\ ticks' = ticks + 1
    /\ UNCHANGED <<raw, tables, threshold, fallback, store, calc, faults, proc, started, quiet>>

\* RCASystemOrchestrator._run_pipeline starts its next cycle; an API or CLI
\* request starts a background task
StartCycle(p, kind) ==
    /\ AtTop(p)
    /\ kind \in KindsOf(p)
    /\ started[p] < MaxStarts(p)
    /\ started' = [started EXCEPT ![p] = @ + 1]
    /\ proc' = [proc EXCEPT ![p] = Begun(kind)]
    /\ quiet' = QuietAtStart(p)
    /\ UNCHANGED <<raw, ticks, tables, threshold, fallback, store, calc, faults>>

\* a cycle of driver p that passes the given batch limit to
\* process_raw_events, as one of at most max cycles
StartWithin(p, kind, limit, max) ==
    /\ AtTop(p)
    /\ started[p] < max
    /\ started' = [started EXCEPT ![p] = @ + 1]
    /\ proc' = [proc EXCEPT ![p] = [Begun(kind) EXCEPT !.limit = limit]]
    /\ quiet' = QuietAtStart(p)
    /\ UNCHANGED <<raw, ticks, tables, threshold, fallback, store, calc, faults>>

\* The shutdown signal (SIGINT) arrives: KeyboardInterrupt is raised in the
\* loop's thread wherever it is.  It is no Exception, so inside a stage only
\* `finally: session.close()` runs (what the session holds is discarded,
\* nothing is committed) and _run_pipeline breaks out of its while loop.
Interrupt ==
    /\ proc["loop"] # Stopped
    /\ proc' = [proc EXCEPT !["loop"] = Stopped]
    /\ quiet' = "dirty"
    /\ UNCHANGED <<raw, ticks, tables, threshold, fallback, store, calc, faults, started>>

\* a loop that goes round once more only after a cycle without error
LoopEndsOnError ==
    /\ proc["loop"] = Idle
    /\ proc' = [proc EXCEPT !["loop"] = Begun("periodic")]
    /\ quiet' = QuietAtStart("loop")
    /\ UNCHANGED <<raw, ticks, tables, threshold, fallback, store, calc, faults, started>>

\* the while loop of _run_pipeline goes round once more, any number of times
LoopIteration ==
    /\ AtTop("loop")
    /\ proc' = [proc EXCEPT !["loop"] = Begun("periodic")]
    /\ quiet' = QuietAtStart("loop")
    /\ UNCHANGED <<raw, ticks, tables, threshold, fallback, store, calc, faults, started>>

-----------------------------------------------------------------------------
(* Enrichment: EnrichmentLayer.process_raw_events *)

EnrichedRows == BagToSet(enriched)

EnrichedRawIds == {e.raw : e \in EnrichedRows}

\* the rows of a sequence, as a bag
RECURSIVE SeqToBag(_)
SeqToBag(seq) ==
    IF seq = <<>> THEN EmptyBag
    ELSE SetToBag({Head(seq)}) (+) SeqToBag(Tail(seq))

\* ORDER BY timestamp DESC: the members of S, newest first
RECURSIVE NewestFirst(_)
NewestFirst(S) ==
    IF S = {} THEN <<>>
    ELSE LET s == CHOOSE x \in S :
                    \A y \in S : SignalOf(y).ts <= SignalOf(x).ts
         IN  <<s>> \o NewestFirst(S \ {s})

Take(seq, n) == SubSeq(seq, 1, Min(n, Len(seq)))

\* process_raw_events without its anti-join
EveryEvent(limit) == Take(NewestFirst(raw), limit)

\* the anti-join of process_raw_events, ordered and limited
UnprocessedEvents(limit) == Take(NewestFirst(raw \ EnrichedRawIds), limit)

\* correlation ids in use, committed or pending in some session
UsedIds ==
    {e.cid : e \in EnrichedRows}
        \cup UNION {{proc[p].pending[i].cid : i \in DOMAIN proc[p].pending}
                    : p \in Procs}

\* uuid.uuid4(): an id nobody holds
FreshId == CHOOSE n \in 1 .. (Cardinality(UsedIds) + 1) : n \notin UsedIds

\* a scan of the whole table, without the time window
WholeTable(s) == {e \in EnrichedRows : e.raw # s}

\* the enriched rows _generate_correlation_id scans: committed rows whose
\* raw event lies within +/- correlation_window of s, s itself excluded
CandidateWindow(s) ==
    {e \in EnrichedRows :
        /\ SignalOf(e.raw).ts >= SignalOf(s).ts - CorrelationWindow
        /\ SignalOf(e.raw).ts <= SignalOf(s).ts + CorrelationWindow
        /\ e.raw # s}

\* the ids _generate_correlation_id may return: that of the first related
\* row of the scan (the query has no ORDER BY), else a fresh one
CorrelationIds(s) ==
    LET related == {e \in CandidateWindow(s) : EventsAreRelated(SignalOf(s), SignalOf(e.raw))}
    IN  IF related = {} THEN {FreshId}
        ELSE {e.cid : e \in related}

\* the history query of _calculate_anomaly_score
History(s) ==
    LET same == {h \in raw : /\ SignalOf(h).source = SignalOf(s).source
                             /\ SignalOf(h).kind = SignalOf(s).kind
                             /\ SignalOf(h).ts < SignalOf(s).ts}
    IN  Take(NewestFirst(same), HistoryLimit)

\* max(0.0, min(1.0, x)) without the clamp
Unclamped(low, x, high) == x

\* max(0.0, min(1.0, x))
Clamp(low, x, high) == Max(low, Min(high, x))

\* the arithmetic of _calculate_anomaly_score on the number of similar
\* messages and the length of the history, as an exact fraction:
\* 1.0 - (similar / total) * 2 = (total - 2 * similar) / total
FrequencyScore(similar, total) ==
    IF total < HistoryMin THEN [num |-> NeutralScore, den |-> 100]
    ELSE [num |-> Clamp(0, total - 2 * similar, total), den |-> total]

\* a fraction of [0, 1] as stored in the tables of this model
Hundredths(f) == (100 * f.num) \div f.den

\* EnrichmentLayer._calculate_anomaly_score, in hundredths
AnomalyScore(s) ==
    LET hist == History(s)
        similar == {i \in DOMAIN hist :
                       SimilarMessages(SignalOf(s).msg, SignalOf(hist[i]).msg)}
    IN  Hundredths(FrequencyScore(Cardinality(similar), Len(hist)))

\* session.query(RawEvent)...limit(limit).all()
EnrichBegin(p) ==
    /\ AtStage(p, "enrich", "ready")
    /\ LET batch == UnprocessedEvents(proc[p].limit)
       IN  \E failed \in Failing(Range(batch)) :
              /\ proc' = [proc EXCEPT ![p].phase = "loaded",
                                      ![p].todo = batch,
                                      ![p].loaded = Range(batch),
                                      ![p].failed = failed]
              /\ faults' = faults - Cardinality(failed)
    /\ UNCHANGED <<raw, ticks, tables, threshold, fallback, store, calc, started, quiet>>

\* _enrich_single_event for the next event of the batch: the row is added
\* to the session, not flushed; when it raises, nothing is added
EnrichOne(p) ==
    /\ AtStage(p, "enrich", "loaded")
    /\ proc[p].todo # <<>>
    /\ LET s == Head(proc[p].todo)
       IN  IF s \in proc[p].failed
           THEN proc' = [proc EXCEPT ![p].todo = Tail(proc[p].todo)]
           ELSE \E cid \in CorrelationIds(s) :
                   proc' = [proc EXCEPT
                              ![p].todo = Tail(proc[p].todo),
                              ![p].pending = Append(proc[p].pending,
                                  [raw |-> s, cid |-> cid,
                                   score |-> AnomalyScore(s)])]
    /\ UNCHANGED <<raw, ticks, tables, threshold, fallback, store, calc, faults, started, quiet>>

\* a failing commit after which the rows of the session stay in the table
CommitFailureKeepsRows(p) ==
    /\ AtStage(p, "enrich", "loaded")
    /\ proc[p].todo = <<>>
    /\ \E crash \in CommitFails :
          /\ enriched' = enriched (+) SeqToBag(proc[p].pending)
          /\ faults' = IF crash THEN faults - 1 ELSE faults
          /\ proc' = [proc EXCEPT ![p] = IF crash THEN StageFailed(proc[p])
                                         ELSE StageDone(proc[p])]
    /\ quiet' = QuietAfter(p, proc'[p])
    /\ UNCHANGED <<raw, ticks, incidents, rca, invocations, threshold,
                   fallback, store, calc, started>>

\* session.commit(): the pending rows are inserted, or the commit fails, the
\* session is rolled back and the error re-raised
EnrichCommit(p) ==
    /\ AtStage(p, "enrich", "loaded")
    /\ proc[p].todo = <<>>
    /\ \E crash \in CommitFails :
          IF crash
          THEN /\ enriched' = enriched
               /\ faults' = faults - 1
               /\ proc' = [proc EXCEPT ![p] = StageFailed(proc[p])]
          ELSE /\ enriched' = enriched (+) SeqToBag(proc[p].pending)
               /\ faults' = faults
               /\ proc' = [proc EXCEPT ![p] = StageDone(proc[p])]
    /\ quiet' = QuietAfter(p, proc'[p])
    /\ UNCHANGED <<raw, ticks, incidents, rca, invocations, threshold,
                   fallback, store, calc, started>>

-----------------------------------------------------------------------------
(* Fusion: FusionLayer.create_incident_contexts *)

IncidentIds == {f.incident_id : f \in BagToSet(incidents)}

\* the enriched rows the fusion query returns: raw timestamp not older than
\* the lookback cutoff, correlation id without a fused context
UnfusedEvents ==
    {e \in EnrichedRows :
        /\ SignalOf(e.raw).ts >= Now - LookbackMinutes
        /\ e.cid \notin IncidentIds}

\* the members of S in ascending order
RECURSIVE Ascending(_)
Ascending(S) ==
    IF S = {} THEN <<>>
    ELSE LET m == CHOOSE x \in S : \A y \in S : x <= y
         IN  <<m>> \o Ascending(S \ {m})

\* _create_fused_context for every correlation group of the loaded rows; the
\* three contexts and the fusion score are functions of the group's members
FusedContexts(loaded) ==
    {[incident_id |-> c, members |-> {e.raw : e \in {x \in loaded : x.cid = c}}]
        : c \in {e.cid : e \in loaded}}

\* fused_contexts without its unique constraint
NoUniqueConstraint(rows) == FALSE

\* UNIQUE (incident_id) on fused_contexts
UniqueViolation(rows) == \E f \in rows : f.incident_id \in IncidentIds

FusionBegin(p) ==
    /\ AtStage(p, "fusion", "ready")
    /\ \E failed \in Failing({e.cid : e \in UnfusedEvents}) :
          /\ proc' = [proc EXCEPT ![p].phase = "loaded",
                                  ![p].loaded = UnfusedEvents,
                                  ![p].failed = failed]
          /\ faults' = faults - Cardinality(failed)
    /\ UNCHANGED <<raw, ticks, tables, threshold, fallback, store, calc, started, quiet>>

\* a failing group that empties the session
FailureDropsBatch(q) ==
    IF q.failed = {} THEN FusedContexts(q.loaded) ELSE {}

\* the fused contexts the session holds at commit: one per group whose
\* _create_fused_context did not raise
AddedContexts(q) ==
    {f \in FusedContexts(q.loaded) : f.incident_id \notin q.failed}

\* a commit that makes the context of every correlation id anew from all
\* the enriched rows stored under it
RefreshingCommit(p) ==
    /\ AtStage(p, "fusion", "loaded")
    /\ incidents' = SetToBag(FusedContexts(EnrichedRows))
    /\ proc' = [proc EXCEPT ![p] = StageDone(proc[p])]
    /\ quiet' = QuietAfter(p, proc'[p])
    /\ UNCHANGED <<raw, ticks, enriched, rca, invocations, threshold,
                   fallback, store, calc, faults, started>>

\* session.commit() of the fused contexts; an IntegrityError (or another
\* failure of the commit) rolls the whole batch back and is re-raised
FusionCommit(p) ==
    /\ AtStage(p, "fusion", "loaded")
    /\ LET rows == AddedContexts(proc[p])
       IN  \E crash \in CommitFails :
              IF crash \/ UniqueViolation(rows)
              THEN /\ incidents' = incidents
                   /\ faults' = IF crash THEN faults - 1 ELSE faults
                   /\ proc' = [proc EXCEPT ![p] = StageFailed(proc[p])]
              ELSE /\ incidents' = incidents (+) SetToBag(rows)
                   /\ faults' = faults
                   /\ proc' = [proc EXCEPT ![p] = StageDone(proc[p])]
    /\ quiet' = QuietAfter(p, proc'[p])
    /\ UNCHANGED <<raw, ticks, enriched, rca, invocations, threshold,
                   fallback, store, calc, started>>

-----------------------------------------------------------------------------
(* Analysis: RCAEngine.analyze_incidents *)

\* search_similar_patterns that lets the error of the query escape as a
\* value in place of the list
SearchPropagatesError ==
    CASE store = "seeded" -> <<"pattern">>
      [] store = "empty" -> <<>>
      [] OTHER -> <<"error">>

\* VectorStore.search_similar_patterns: the formatted matches, [] when the
\* collection has none and [] from the except branch
SearchSimilarPatterns ==
    CASE store = "seeded" -> <<"pattern">>
      [] store = "empty" -> <<>>
      [] OTHER -> <<>>

\* what the Explainer (LLM call and response parsing) yields
ExplainerConfidences == {55, 80, 97}

ExplainerOutcomes ==
    [kind : {"json"}, conf : ExplainerConfidences]
        \cup [kind : {"invalid_confidence", "unparsable", "error"}, conf : {0}]

\* _generate_llm_rca whose error result carries confidence 0
ErrorWithoutConfidence(out) ==
    IF out.kind = "json"
    THEN [root_cause |-> <<"llm">>, confidence |-> out.conf, fix |-> <<"llm">>]
    ELSE [root_cause |-> <<"llm_error">>, confidence |-> 0,
          fix |-> <<"manual_investigation">>]

\* RCAEngine._generate_llm_rca with _parse_llm_response / _fallback_parse
GenerateLlmRca(out) ==
    CASE out.kind = "json" ->
           [root_cause |-> <<"llm">>, confidence |-> out.conf,
            fix |-> <<"llm">>]
      [] out.kind = "invalid_confidence" ->
           [root_cause |-> <<"llm">>, confidence |-> InvalidConfidenceDefault,
            fix |-> <<"llm">>]
      [] out.kind = "unparsable" ->
           [root_cause |-> <<"unclear">>, confidence |-> FallbackParseConfidence,
            fix |-> <<"manual_review">>]
      [] OTHER ->
           [root_cause |-> <<"llm_error">>, confidence |-> LlmErrorConfidence,
            fix |-> <<"manual_investigation">>]

\* "Requires deeper analysis with external tools"
Placeholder == <<"placeholder">>

\* the gate with <= in place of <
GateExcludingEquality(confidence) ==
    IF confidence <= threshold
    THEN IF fallback THEN "pending_agentic" ELSE "llm_low_confidence"
    ELSE "llm"

\* the confidence gate of _analyze_single_incident
AnalysisMethod(confidence) ==
    IF confidence < threshold
    THEN IF fallback THEN "pending_agentic" ELSE "llm_low_confidence"
    ELSE "llm"

\* _analyze_single_incident without the placeholder assignment
KeepExplainerFix(id, incident, out) ==
    LET r == GenerateLlmRca(out)
    IN  [id |-> id,
         incident_id |-> incident,
         root_cause |-> r.root_cause,
         confidence |-> r.confidence,
         fix |-> r.fix,
         method |-> AnalysisMethod(r.confidence),
         matches |-> SearchSimilarPatterns]

\* RCAEngine._analyze_single_incident: the RCAResult row for one incident
AnalyzeSingleIncident(id, incident, out) ==
    LET r == GenerateLlmRca(out)
        method == AnalysisMethod(r.confidence)
    IN  [id |-> id,
         incident_id |-> incident,
         root_cause |-> r.root_cause,
         confidence |-> r.confidence,
         fix |-> IF method = "pending_agentic" THEN Placeholder ELSE r.fix,
         method |-> method,
         matches |-> SearchSimilarPatterns]

\* FusedContext rows without an RCAResult
UnanalyzedIncidents == IncidentIds \ {r.incident_id : r \in rca}

RcaBegin(p) ==
    /\ AtStage(p, "rca", "ready")
    /\ \E failed \in Failing(UnanalyzedIncidents) :
          /\ proc' = [proc EXCEPT ![p].phase = "loaded",
                                  ![p].loaded = UnanalyzedIncidents,
                                  ![p].failed = failed]
          /\ faults' = faults - Cardinality(failed)
    /\ UNCHANGED <<raw, ticks, tables, threshold, fallback, store, calc, started, quiet>>

\* primary keys no row and no open session holds
RcaIdsInUse ==
    {r.id : r \in rca} \cup UNION {{r.id : r \in proc[p].rows} : p \in Procs}

\* the next n primary keys of rca_results
RECURSIVE NewRcaIds(_, _)
NewRcaIds(n, used) ==
    IF n = 0 THEN <<>>
    ELSE LET id == CHOOSE i \in 1 .. (Cardinality(used) + 1) : i \notin used
         IN  <<id>> \o NewRcaIds(n - 1, used \cup {id})

\* the loop over the loaded incidents (an incident whose
\* _analyze_single_incident raises adds no row) and session.commit()
RcaCommit(p) ==
    /\ AtStage(p, "rca", "loaded")
    /\ \E crash \in CommitFails :
          IF crash
          THEN /\ rca' = rca
               /\ faults' = faults - 1
               /\ proc' = [proc EXCEPT ![p] = StageFailed(proc[p])]
          ELSE /\ LET batch == Ascending(proc[p].loaded \ proc[p].failed)
                      ids == NewRcaIds(Len(batch), RcaIdsInUse)
                  IN  \E outs \in [DOMAIN batch -> ExplainerOutcomes] :
                         rca' = rca \cup
                            {AnalyzeSingleIncident(ids[k], batch[k], outs[k])
                               : k \in DOMAIN batch}
               /\ faults' = faults
               /\ proc' = [proc EXCEPT ![p] = StageDone(proc[p])]
    /\ quiet' = QuietAfter(p, proc'[p])
    /\ UNCHANGED <<raw, ticks, enriched, incidents, invocations, threshold,
                   fallback, store, calc, started>>

-----------------------------------------------------------------------------
(* Deep analysis: AgenticAI.analyze_low_confidence_incidents *)

Tools == {"query_monitoring_tools", "github_artifacts",
          "analyze_source_repos", "fetch_external_context"}

\* What the four investigators return for one incident: the tools that
\* returned data (the others returned None) and, of that data, what
\* _synthesize_agentic_findings reads.  malformed: an entry lacks a key the
\* synthesis subscripts, so that it raises.
NoData ==
    [tools |-> {}, cpu_high |-> FALSE, services_down |-> FALSE,
     deployments |-> 0, perf_issues |-> 0, risky_hotspots |-> 0,
     cloud_incidents |-> 0, degraded_deps |-> 0, malformed |-> FALSE]

InvestigatorOutcomes ==
    { NoData,
      [NoData EXCEPT !.tools = {"query_monitoring_tools"}],
      [NoData EXCEPT !.tools = {"analyze_source_repos"},
                     !.risky_hotspots = 1],
      [NoData EXCEPT !.tools = {"fetch_external_context"},
                     !.cloud_incidents = 1],
      [NoData EXCEPT !.tools = {"github_artifacts"}, !.deployments = 1,
                     !.malformed = TRUE],
      \* the data the four tools of the source return
      [tools |-> Tools, cpu_high |-> TRUE, services_down |-> TRUE,
       deployments |-> 2, perf_issues |-> 1, risky_hotspots |-> 0,
       cloud_incidents |-> 1, degraded_deps |-> 1, malformed |-> FALSE] }

\* n copies of w
Copies(n, w) == [k \in 1 .. n |-> w]

RECURSIVE Sum(_)
Sum(seq) == IF seq = <<>> THEN 0 ELSE Head(seq) + Sum(Tail(seq))

\* confidence_factors of _synthesize_agentic_findings, in hundredths: one
\* entry per finding, read from the data of the tools that returned some
ConfidenceFactors(f) ==
    LET Has(tool) == tool \in f.tools
    IN     (IF Has("query_monitoring_tools") /\ f.cpu_high THEN <<20>> ELSE <<>>)
        \o (IF Has("query_monitoring_tools") /\ f.services_down THEN <<30>> ELSE <<>>)
        \o (IF Has("github_artifacts") THEN Copies(f.deployments, 25) ELSE <<>>)
        \o (IF Has("github_artifacts") THEN Copies(f.perf_issues, 20) ELSE <<>>)
        \o (IF Has("analyze_source_repos") THEN Copies(f.risky_hotspots, 15) ELSE <<>>)
        \o (IF Has("fetch_external_context") THEN Copies(f.cloud_incidents, 10) ELSE <<>>)
        \o (IF Has("fetch_external_context") THEN Copies(f.degraded_deps, 15) ELSE <<>>)

EvidenceSum(f) == Sum(ConfidenceFactors(f))

FindingCount(f) == Len(ConfidenceFactors(f))

\* the enhanced confidence without the cap on the boost
UncappedBoost(base, f) == Min(MaxEnhancedConfidence, base + EvidenceSum(f))

\* min(0.95, base_confidence + min(0.3, sum(confidence_factors)))
EnhancedConfidence(base, f) ==
    Min(MaxEnhancedConfidence, base + Min(MaxBoost, EvidenceSum(f)))

\* the except branch without its cap
UncappedPartial(base) == base + PartialBump

\* the except branch: min(0.85, confidence_score + 0.1)
PartialConfidence(base) == Min(PartialCap, base + PartialBump)

\* AgenticAI._generate_enhanced_fix
EnhancedFix(fix, f) ==
    IF \/ "query_monitoring_tools" \in f.tools /\ f.services_down
       \/ "github_artifacts" \in f.tools /\ f.deployments > 0
       \/ "fetch_external_context" \in f.tools /\ f.degraded_deps > 0
    THEN Append(fix, "steps")
    ELSE fix

\* AgenticAI._synthesize_agentic_findings on the loaded row
Synthesize(row, f) ==
    IF f.malformed
    THEN [root_cause |-> Append(row.root_cause, "partial"),
          confidence |-> PartialConfidence(row.confidence),
          fix |-> row.fix]
    ELSE [root_cause |-> IF FindingCount(f) > 0
                         THEN Append(row.root_cause, "findings")
                         ELSE row.root_cause,
          confidence |-> EnhancedConfidence(row.confidence, f),
          fix |-> EnhancedFix(row.fix, f)]

\* an agentic query that selects every row
EveryRow(r) == TRUE

\* an agentic query that selects no row
NoRow(r) == FALSE

\* RCAResult rows the agentic query selects
PendingFilter(r) == r.method = "pending_agentic"

PendingRows == {r \in rca : PendingFilter(r)}

RowById(id) == CHOOSE r \in rca : r.id = id

\* the UPDATE the session flushes for a loaded row: the columns whose value
\* the stage changed are written, the others keep what the table holds
UpdatedRow(loaded, f) ==
    LET e == Synthesize(loaded, f)
        cur == RowById(loaded.id)
        Col(old, new, now) == IF new = old THEN now ELSE new
    IN  [cur EXCEPT
           !.root_cause = Col(loaded.root_cause, e.root_cause, cur.root_cause),
           !.confidence = Col(loaded.confidence, e.confidence, cur.confidence),
           !.fix = Col(loaded.fix, e.fix, cur.fix),
           !.method = "agentic"]

\* an AgenticInvocation row that does not name the incident analyzed
MisfiledRow(loaded, f) ==
    [incident_id |-> 0,
     tools |-> f.tools,
     context |-> f,
     improvement |-> Synthesize(loaded, f).confidence - loaded.confidence]

\* the AgenticInvocation row of one _perform_agentic_analysis
InvocationRow(loaded, f) ==
    [incident_id |-> loaded.incident_id,
     tools |-> f.tools,
     context |-> f,
     improvement |-> Synthesize(loaded, f).confidence - loaded.confidence]

AgenticBegin(p) ==
    /\ AtStage(p, "agentic", "ready")
    /\ \E failed \in Failing({r.id : r \in PendingRows}) :
          /\ proc' = [proc EXCEPT ![p].phase = "loaded",
                                  ![p].rows = PendingRows,
                                  ![p].failed = failed]
          /\ faults' = faults - Cardinality(failed)
    /\ UNCHANGED <<raw, ticks, tables, threshold, fallback, store, calc, started, quiet>>

\* the loop over the loaded rows and session.commit(); the UPDATE of a row
\* that was deleted meanwhile matches nothing (StaleDataError): the batch is
\* rolled back and the error re-raised
AgenticCommit(p) ==
    /\ AtStage(p, "agentic", "loaded")
    /\ LET ids == Ascending({r.id : r \in proc[p].rows} \ proc[p].failed)
           Loaded(k) == CHOOSE r \in proc[p].rows : r.id = ids[k]
       IN  \E crash \in CommitFails :
              IF crash \/ \E k \in DOMAIN ids : ids[k] \notin {r.id : r \in rca}
              THEN /\ UNCHANGED <<rca, invocations>>
                   /\ faults' = IF crash THEN faults - 1 ELSE faults
                   /\ proc' = [proc EXCEPT ![p] = StageFailed(proc[p])]
              ELSE /\ \E fs \in [DOMAIN ids -> InvestigatorOutcomes] :
                         /\ rca' = {r \in rca : r.id \notin Range(ids)}
                                      \cup {UpdatedRow(Loaded(k), fs[k])
                                            : k \in DOMAIN ids}
                         /\ invocations' = invocations (+) SeqToBag(
                               [k \in DOMAIN ids |->
                                   InvocationRow(Loaded(k), fs[k])])
                   /\ faults' = faults
                   /\ proc' = [proc EXCEPT ![p] = StageDone(proc[p])]
    /\ quiet' = QuietAfter(p, proc'[p])
    /\ UNCHANGED <<raw, ticks, enriched, incidents, threshold, fallback, store, calc,
                   started>>

-----------------------------------------------------------------------------
(* Re-analysis: POST /api/v1/rca/{incident_id}/reanalyze *)

\* a re-analysis that also discards the enriched signals of the incident
PurgingReanalysis(incident, max) ==
    /\ proc["ondemand"] = Idle
    /\ started["ondemand"] < max
    /\ incident \in IncidentIds
    /\ \/ /\ \A r \in rca : r.incident_id # incident
          /\ rca' = rca
       \/ \E r \in rca : /\ r.incident_id = incident
                         /\ rca' = rca \ {r}
    /\ proc' = [proc EXCEPT !["ondemand"] = Begun("reanalyze")]
    /\ started' = [started EXCEPT !["ondemand"] = @ + 1]
    /\ quiet' = "dirty"
    /\ UNCHANGED <<raw, ticks, incidents, invocations, threshold,
                   fallback, store, calc, faults>>
    /\ enriched' = [e \in {x \in BagToSet(enriched) : x.cid # incident}
                        |-> enriched[e]]

\* reanalyze_incident for an incident that exists: the first RCAResult of
\* the incident, if any, is deleted and committed, and
\* reanalyze_incident_task (an RCA step) is scheduled.  The handler runs on
\* the event loop of the on-demand process.
Rescheduled(incident, max) ==
    /\ proc["ondemand"] = Idle
    /\ started["ondemand"] < max
    /\ incident \in IncidentIds
    /\ \/ /\ \A r \in rca : r.incident_id # incident
          /\ rca' = rca
       \/ \E r \in rca : /\ r.incident_id = incident
                         /\ rca' = rca \ {r}
    /\ proc' = [proc EXCEPT !["ondemand"] = Begun("reanalyze")]
    /\ started' = [started EXCEPT !["ondemand"] = @ + 1]
    /\ quiet' = "dirty"
    /\ UNCHANGED <<raw, ticks, enriched, incidents, invocations, threshold,
                   fallback, store, faults>>

\* reanalyze_incident where the response is not observed
ReanalyzeWithin(incident, max) ==
    Rescheduled(incident, max) /\ UNCHANGED calc

\* the incident ids a client may put in the path of the request
RequestIds == 0 .. MaxRequestId

\* what the client receives from reanalyze_incident
Response(incident, status) ==
    [op |-> "reanalyze", incident |-> incident, status |-> status]

\* a handler that skips the existence check: nothing matches the delete
\* and the task is scheduled
ReanalyzeUnchecked(incident) ==
    /\ incident \notin IncidentIds
    /\ proc["ondemand"] = Idle
    /\ started["ondemand"] < MaxOnDemand
    /\ calc' = Response(incident, 200)
    /\ proc' = [proc EXCEPT !["ondemand"] = Begun("reanalyze")]
    /\ started' = [started EXCEPT !["ondemand"] = @ + 1]
    /\ quiet' = "dirty"
    /\ UNCHANGED <<raw, ticks, tables, threshold, fallback, store, faults>>

\* reanalyze_incident for an id that has no FusedContext: HTTPException 404
\* is raised before the delete and before add_task
ReanalyzeNotFound(incident) ==
    /\ incident \notin IncidentIds
    /\ calc' = Response(incident, 404)
    /\ UNCHANGED <<raw, ticks, tables, threshold, fallback, store, faults,
                   proc, started, quiet>>

\* reanalyze_incident, for any id and with the response
ReanalyzeIncident(incident, max) ==
    \/ ReanalyzeNotFound(incident)
    \/ Rescheduled(incident, max) /\ calc' = Response(incident, 200)

\* a re-analysis request, as one of the requests the on-demand process serves
Reanalyze(incident) == ReanalyzeWithin(incident, MaxOnDemand)

-----------------------------------------------------------------------------
(* Specification *)

Next ==
    \/ \E s \in Catalog : Ingest(s)
    \/ Tick
    \/ \E p \in Procs : \E kind \in KindsOf(p) : StartCycle(p, kind)
    \/ \E p \in Procs : EnrichBegin(p)
    \/ \E p \in Procs : EnrichOne(p)
    \/ \E p \in Procs : EnrichCommit(p)
    \/ \E p \in Procs : FusionBegin(p)
    \/ \E p \in Procs : FusionCommit(p)
    \/ \E p \in Procs : RcaBegin(p)
    \/ \E p \in Procs : RcaCommit(p)
    \/ \E p \in Procs : AgenticBegin(p)
    \/ \E p \in Procs : AgenticCommit(p)
    \/ \E i \in IncidentIds : Reanalyze(i)

Spec == Init /\ [][Next]_vars

\* One driver: the periodic loop alone, cycle after cycle, with signals
\* arriving and the clock advancing
SeqNext ==
    \/ \E s \in Catalog : Ingest(s)
    \/ Tick
    \/ LoopIteration
    \/ EnrichBegin("loop")
    \/ EnrichOne("loop")
    \/ EnrichCommit("loop")
    \/ FusionBegin("loop")
    \/ FusionCommit("loop")
    \/ RcaBegin("loop")
    \/ RcaCommit("loop")
    \/ AgenticBegin("loop")
    \/ AgenticCommit("loop")

SeqSpec == Init /\ [][SeqNext]_vars

\* The stages of the loop's cycle.  The loop keeps running: whatever step
\* of its cycle is next is eventually taken (the loop is one sequential
\* task, so one step is enabled at a time)
LoopStage ==
    \/ EnrichBegin("loop")
    \/ EnrichOne("loop")
    \/ EnrichCommit("loop")
    \/ FusionBegin("loop")
    \/ FusionCommit("loop")
    \/ RcaBegin("loop")
    \/ RcaCommit("loop")
    \/ AgenticBegin("loop")
    \/ AgenticCommit("loop")

LoopStep == LoopIteration \/ LoopStage

FairSpec == SeqSpec /\ WF_vars(LoopStep)

\* Re-analysis beside the loop: one signal is stored, the loop runs its
\* cycles, and re-analysis requests arrive, each followed by its task
\* (reanalyze_incident_task: an analysis step)
ReNext ==
    \/ Ingest(1)
    \/ StartCycle("loop", "periodic")
    \/ LoopStage
    \/ \E i \in IncidentIds : ReanalyzeWithin(i, MaxReanalyze)
    \/ RcaBegin("ondemand")
    \/ RcaCommit("ondemand")

\* the thresholds of Init and one at the confidence of the Explainer's error
\* result
ReInit == InitWith(Thresholds \cup {LlmErrorConfidence}, Stores, 0)

ReSpec == ReInit /\ [][ReNext]_vars

\* two signals that do not correlate (same source, 30 minutes apart)
Unrelated == {1, MaxSignals}

\* Re-analysis requests for any id beside the loop: two signals that
\* become two incidents, the loop's cycles, and the requests, each
\* accepted one followed by its task
RequestNext ==
    \/ \E s \in Unrelated : Ingest(s)
    \/ StartWithin("loop", "periodic", WideLimit, MaxPeriodic)
    \/ LoopStage
    \/ \E i \in RequestIds : ReanalyzeIncident(i, MaxOnDemand)
    \/ RcaBegin("ondemand")
    \/ RcaCommit("ondemand")

\* threshold 80, deep analysis disabled, a seeded knowledge store, no
\* failing commits
RequestInit == InitWith({80}, {"seeded"}, 0) /\ ~fallback

RequestSpec == RequestInit /\ [][RequestNext]_vars

\* The loop alone while the environment makes records and commits fail:
\* signals arrive, each cycle takes all unprocessed signals in one batch
FaultNext ==
    \/ \E s \in Unrelated : Ingest(s)
    \/ StartWithin("loop", "periodic", WideLimit, MaxFaultCycles)
    \/ LoopStage

FaultInit == InitWith(Thresholds, {"seeded"}, MaxFaults)

FaultSpec == FaultInit /\ [][FaultNext]_vars

\* The loop until its shutdown: signals arrive, each cycle takes all
\* unprocessed signals in one batch, and the shutdown signal arrives at any
\* moment
ShutdownNext ==
    \/ \E s \in Unrelated : Ingest(s)
    \/ StartWithin("loop", "periodic", WideLimit, MaxFaultCycles)
    \/ LoopStage
    \/ Interrupt

ShutdownSpec == Init /\ [][ShutdownNext]_vars

\* the two signals of one source, 3 minutes apart
Correlated == {1, 2}

\* The loop alone on two signals that correlate: they arrive at any moment
\* and each cycle takes all unprocessed signals in one batch
BatchNext ==
    \/ \E s \in Correlated : Ingest(s)
    \/ StartWithin("loop", "periodic", WideLimit, MaxFaultCycles)
    \/ LoopStage

BatchSpec == Init /\ [][BatchNext]_vars

\* The ingestion boundary: clients send single signals and batches of
\* signals while the clock advances and the database makes commits fail
IngestNext ==
    \/ \E s \in Catalog : Ingest(s)
    \/ \E b \in Batches : IngestBatch(b)
    \/ Tick

IngestSpec == FaultInit /\ [][IngestNext]_vars

\* rca.confidence_threshold values of a config.yaml, among them values
\* outside 0..100: RCAEngine.__init__ stores what the file holds
ConfigThresholds == {-10, 80, 150}

ConfigInit == InitWith(ConfigThresholds, {"seeded"}, 0)

\* The loop started on any of these configurations
ConfigSpec == ConfigInit /\ [][BatchNext]_vars

\* Fusion runs that race: beside one cycle of the loop the on-demand
\* process serves enrichment and fusion requests, while signals arrive
RaceNext ==
    \/ \E s \in Unrelated : Ingest(s)
    \/ StartCycle("loop", "periodic")
    \/ LoopStage
    \/ \E kind \in {"enrich", "fusion"} :
          StartWithin("ondemand", kind, StepLimit, MaxRaceRequests)
    \/ EnrichBegin("ondemand")
    \/ EnrichOne("ondemand")
    \/ EnrichCommit("ondemand")
    \/ FusionBegin("ondemand")
    \/ FusionCommit("ondemand")

RaceInit == InitWith({80}, {"seeded"}, 0)

RaceSpec == RaceInit /\ [][RaceNext]_vars

\* The loop for ever, cycle after cycle, while the environment makes records
\* and commits fail
FaultLoopNext ==
    \/ \E s \in Unrelated : Ingest(s)
    \/ LoopStep

FaultFairSpec == FaultInit /\ [][FaultLoopNext]_vars /\ WF_vars(LoopStep)

-----------------------------------------------------------------------------
(* The pure functions of the stages, applied to arguments of bounded sets *)

\* everything but calc
program == <<raw, ticks, tables, threshold, fallback, store, faults, proc,
             started, quiet>>

Applied == "out" \in DOMAIN calc

Sources == {"web-1", "db-1"}

\* the severities of the API's enumeration, an unknown one, and None
Severities == {"critical", "high", "medium", "low", "info", "warning", "none"}

\* metadata: the key sets of a dict; {} stands for None and for the empty dict
Metas == SUBSET {"host", "region", "team"}

RelatedInputs ==
    [op : {"related"},
     a : [source : Sources, severity : Severities, meta : Metas],
     b : [source : Sources, severity : Severities, meta : Metas]]

\* _events_are_related(event1, event2)
ApplyRelated ==
    /\ calc.op = "related"
    /\ ~Applied
    /\ calc' = [op |-> "related", a |-> calc.a, b |-> calc.b,
                out |-> EventsAreRelated(calc.a, calc.b)]
    /\ UNCHANGED program

\* Histories.  A table of raw events too long to enumerate row by row is
\* given by runs: at each timestamp, n events of one source, kind and message.
Times == {1, 2, 3}

RunLengths == {5, 95}

Kinds == {"event", "log"}

Messages == {{"cpu", "high", "load", "web"}, {"cpu", "high", "load"},
             {"cpu", "high"}, {}}

NoRun == [n |-> 0, source |-> "web-1", kind |-> "event", msg |-> {}]

Runs == [n : RunLengths, source : Sources, kind : Kinds, msg : Messages]
            \cup {NoRun}

\* the signal scored is the newest of the table's timestamps
ScoreInputs ==
    [op : {"score"},
     e : [source : {"web-1"}, kind : {"event"}, ts : {3}, msg : Messages],
     table : [Times -> Runs]]

\* the same with a non-strict comparison of the timestamps
ThroughNow(e, run, t) ==
    /\ run.source = e.source
    /\ run.kind = e.kind
    /\ t <= e.ts

\* RawEvent.source == ..., RawEvent.event_type == ..., RawEvent.timestamp < ...
InHistory(e, run, t) ==
    /\ run.source = e.source
    /\ run.kind = e.kind
    /\ t < e.ts

\* .order_by(RawEvent.timestamp.desc()).limit(room).all(), from timestamp t
\* downwards: the runs of the history, newest first
RECURSIVE HistoryRuns(_, _, _, _)
HistoryRuns(e, table, t, room) ==
    IF t \notin Times THEN <<>>
    ELSE LET k == IF InHistory(e, table[t], t) THEN Min(table[t].n, room)
                  ELSE 0
         IN  <<[n |-> k, msg |-> table[t].msg]>>
                 \o HistoryRuns(e, table, t - 1, room - k)

RECURSIVE RunTotal(_)
RunTotal(runs) ==
    IF runs = <<>> THEN 0 ELSE Head(runs).n + RunTotal(Tail(runs))

\* similar_messages of a history given by runs
SimilarRuns(e, runs) ==
    SelectSeq(runs, LAMBDA r : SimilarMessages(e.msg, r.msg))

\* _calculate_anomaly_score(session, raw_event)
ApplyScore ==
    /\ calc.op = "score"
    /\ ~Applied
    /\ LET hist == HistoryRuns(calc.e, calc.table, calc.e.ts, HistoryLimit)
       IN  calc' = [op |-> "score", e |-> calc.e, table |-> calc.table,
                    out |-> FrequencyScore(RunTotal(SimilarRuns(calc.e, hist)),
                                           RunTotal(hist))]
    /\ UNCHANGED program

\* Fusion scores.  temporal_intensity, causal_strength and
\* root_cause_confidence are given in hundredths, the weights of the
\* configuration in tenths, the fusion score in ten-thousandths of 1.
\* (2 events 4 minutes apart, 1 event, 4 events in 30 seconds, 15 events in
\* a minute)
TemporalContexts ==
    {[temporal_intensity |-> 50, is_burst_pattern |-> FALSE],
     [temporal_intensity |-> 100, is_burst_pattern |-> FALSE],
     [temporal_intensity |-> 400, is_burst_pattern |-> TRUE],
     [temporal_intensity |-> 1500, is_burst_pattern |-> TRUE]}

SemanticContexts == [max_severity : {"critical", "high", "low"},
                     is_multi_service : BOOLEAN,
                     type_diversity : {1, 4}]

CausalContexts == [causal_strength : {0, 100},
                   root_cause_confidence : {0, 90}]

\* config['fusion'][...]: FusionLayer.__init__ takes the values as they are
WeightValues == {-5, 3, 4, 10}

FusionWeights == [temporal : WeightValues, semantic : WeightValues,
                  causal : WeightValues]

FusionInputs ==
    [op : {"fusion"}, temporal : TemporalContexts, semantic : SemanticContexts,
     causal : CausalContexts, weights : FusionWeights]

\* temporal_score, in thousandths
TemporalScore(temporal) ==
    Min(1000, temporal.temporal_intensity)
        + (IF temporal.is_burst_pattern THEN 200 ELSE 0)

\* semantic_score, in thousandths
SemanticScore(semantic) ==
    (CASE semantic.max_severity = "critical" -> 400
       [] semantic.max_severity = "high" -> 300
       [] OTHER -> 0)
        + (IF semantic.is_multi_service THEN 300 ELSE 0)
        + Min(300, 100 * semantic.type_diversity)

\* causal_score, in thousandths
CausalScore(causal) ==
    6 * causal.causal_strength + 4 * causal.root_cause_confidence

\* FusionLayer._calculate_fusion_score, in ten-thousandths
CalculateFusionScore(temporal, semantic, causal, weights) ==
    Min(10000, TemporalScore(temporal) * weights.temporal
                 + SemanticScore(semantic) * weights.semantic
                 + CausalScore(causal) * weights.causal)

\* _calculate_fusion_score(temporal_context, semantic_context, causal_context)
ApplyFusionScore ==
    /\ calc.op = "fusion"
    /\ ~Applied
    /\ calc' = [op |-> "fusion", temporal |-> calc.temporal,
                semantic |-> calc.semantic, causal |-> calc.causal,
                weights |-> calc.weights,
                out |-> CalculateFusionScore(calc.temporal, calc.semantic,
                                             calc.causal, calc.weights)]
    /\ UNCHANGED program

\* Temporal contexts.  A correlation group is given by the timestamps of
\* its events, in seconds, in the order the query returned them.
MaxGroup == 4

Seconds == {0, 10, 20, 30, 90}

Groups == UNION {[1 .. n -> Seconds] : n \in 1 .. MaxGroup}

TemporalInputs == [op : {"temporal"}, timestamps : Groups]

\* timestamps.sort()
RECURSIVE Sorted(_)
Sorted(seq) ==
    IF seq = <<>> THEN <<>>
    ELSE LET m == CHOOSE i \in DOMAIN seq : \A j \in DOMAIN seq : seq[i] <= seq[j]
         IN  <<seq[m]>> \o Sorted([i \in 1 .. Len(seq) - 1 |->
                                      IF i < m THEN seq[i] ELSE seq[i + 1]])

\* event_intervals
Intervals(sorted) == [i \in 1 .. Len(sorted) - 1 |-> sorted[i + 1] - sorted[i]]

\* len(events) / (duration / 60): events per minute without a floor
PerMinute(count, duration) == [num |-> 60 * count, den |-> duration]

\* len(events) / max(duration / 60, 1), as an exact fraction
TemporalIntensity(count, duration) ==
    [num |-> 60 * count, den |-> Max(duration, 60)]

\* FusionLayer._generate_temporal_context: the fields computed from the
\* timestamps.  avg_interval < 60 is sum < 60 * len for a non-empty list of
\* intervals, and 0 < 60 for an empty one.
GenerateTemporalContext(timestamps) ==
    LET sorted == Sorted(timestamps)
        duration == sorted[Len(sorted)] - sorted[1]
        intervals == Intervals(sorted)
        count == Len(timestamps)
    IN  [event_count |-> count,
         duration_seconds |-> duration,
         interval_sum |-> Sum(intervals),
         interval_count |-> Len(intervals),
         is_burst_pattern |->
             /\ IF intervals = <<>> THEN TRUE
                ELSE Sum(intervals) < 60 * Len(intervals)
             /\ count > 3,
         temporal_intensity |-> TemporalIntensity(count, duration)]

\* _generate_temporal_context(events)
ApplyTemporalContext ==
    /\ calc.op = "temporal"
    /\ ~Applied
    /\ calc' = [op |-> "temporal", timestamps |-> calc.timestamps,
                out |-> GenerateTemporalContext(calc.timestamps)]
    /\ UNCHANGED program

\* Root causes.  A correlation group is given by its members in the order
\* of their timestamps, each with the (source, message) pair of its signal
\* and its anomaly score in hundredths.
MaxMembers == 3

Members == [origin : {"web-1: cpu high", "db-1: slow query"},
            anomaly_score : {40, 60, 85, 95}]

RootCauseInputs ==
    [op : {"root_cause"},
     events : UNION {[1 .. n -> Members] : n \in 1 .. MaxMembers}]

\* root_causes: the first event if its score is above 0.5, then every event
\* with a score above 0.8, in the order of the timestamps
Candidates(events) ==
    (IF events[1].anomaly_score > 50 THEN <<events[1]>> ELSE <<>>)
        \o SelectSeq(events, LAMBDA e : e.anomaly_score > 80)

\* unique_causes: the first cause of each (source, message) pair
RECURSIVE UniqueCauses(_, _)
UniqueCauses(causes, seen) ==
    IF causes = <<>> THEN <<>>
    ELSE IF Head(causes).origin \in seen
         THEN UniqueCauses(Tail(causes), seen)
         ELSE <<Head(causes)>>
                 \o UniqueCauses(Tail(causes), seen \cup {Head(causes).origin})

\* sorted(unique_causes, key=confidence, reverse=True)
RECURSIVE ByConfidence(_)
ByConfidence(causes) ==
    IF causes = <<>> THEN <<>>
    ELSE LET m == CHOOSE i \in DOMAIN causes : \A j \in DOMAIN causes :
                     causes[i].anomaly_score >= causes[j].anomaly_score
         IN  <<causes[m]>> \o ByConfidence([i \in 1 .. Len(causes) - 1 |->
                                 IF i < m THEN causes[i] ELSE causes[i + 1]])

\* FusionLayer._identify_potential_root_causes
IdentifyPotentialRootCauses(events) ==
    Take(ByConfidence(UniqueCauses(Candidates(events), {})), 3)

\* FusionLayer._calculate_root_cause_confidence, in hundredths
RootCauseConfidence(causes) ==
    IF causes = <<>> THEN 0
    ELSE causes[CHOOSE i \in DOMAIN causes : \A j \in DOMAIN causes :
                    causes[i].anomaly_score >= causes[j].anomaly_score]
            .anomaly_score

\* the root_cause_confidence of _generate_causal_context(events)
ApplyRootCause ==
    /\ calc.op = "root_cause"
    /\ ~Applied
    /\ calc' = [op |-> "root_cause", events |-> calc.events,
                out |-> RootCauseConfidence(
                           IdentifyPotentialRootCauses(calc.events))]
    /\ UNCHANGED program

PureInputs ==
    RelatedInputs \cup ScoreInputs \cup FusionInputs \cup TemporalInputs
        \cup RootCauseInputs

PureInit == Installed({80}, {"seeded"}, 0) /\ calc \in PureInputs

PureNext ==
    \/ ApplyRelated
    \/ ApplyScore
    \/ ApplyFusionScore
    \/ ApplyTemporalContext
    \/ ApplyRootCause

PureSpec == PureInit /\ [][PureNext]_vars

TypeOK ==
    /\ raw \subseteq Catalog
    /\ ticks \in 0 .. MaxTicks
    /\ threshold \in 0 .. 100
    /\ fallback \in BOOLEAN
    /\ store \in Stores
    /\ faults \in Nat
    /\ \A r \in rca : r.confidence \in 0 .. 100

-----------------------------------------------------------------------------
(* Properties *)

\* number of rows of bag B that are in the set S
CountIn(B, S) == BagCardinality([e \in BagToSet(B) \cap S |-> B[e]])

\* number of enriched_events rows of signal s
EnrichedCount(s) == CountIn(enriched, {e \in BagToSet(enriched) : e.raw = s})

\* number of fused_contexts rows with incident_id id
IncidentCount(id) ==
    CountIn(incidents, {f \in BagToSet(incidents) : f.incident_id = id})

ResultsOf(id) == {r \in rca : r.incident_id = id}

Terminal == {"llm", "llm_low_confidence", "agentic"}

RcaIds == {r.id : r \in rca}

\* the loop is in the cycle that follows a completed, undisturbed cycle
SecondRun == quiet \in {"rerun", "catchup"}

\* a step adds rows only: no enriched row, incident or terminal result is
\* changed or removed, and no signal, incident id or incident gets a second
\* row
AddsNoDuplicate ==
    /\ enriched \sqsubseteq enriched'
    /\ incidents \sqsubseteq incidents'
    /\ \A r \in rca : r.method \in Terminal => r \in rca'
    /\ \A s \in raw : EnrichedCount(s)' <= 1
    /\ \A f \in BagToSet(incidents') : IncidentCount(f.incident_id)' = 1
    /\ \A f \in BagToSet(incidents') :
          Cardinality({r \in rca' : r.incident_id = f.incident_id}) <= 1

\* C1 as stated: a second sequential run of the four stages on the state a
\* completed first run left creates no EnrichedSignal, Incident or
\* AnalysisResult row and changes the content of none.
C1_SecondRunChangesNothing ==
    [][SecondRun => <<enriched, incidents, rca>>' = <<enriched, incidents, rca>>]_vars

\* C1, amended: a second sequential run changes nothing when the first run
\* left every stored signal enriched; when the first run's batch limit left
\* signals unenriched, the second run only adds rows, changes no existing
\* row and gives no signal, incident id or incident a second row.
C1_SecondRunIdempotent ==
    [][/\ quiet = "rerun" =>
             <<enriched, incidents, rca>>' = <<enriched, incidents, rca>>
       /\ quiet = "catchup" => AddsNoDuplicate]_vars

\* C1 witness: the second run has gone through enrichment, fusion and analysis
\* on a state that holds rows of all three tables
C1_Witness ==
    /\ quiet = "rerun"
    /\ AtStage("loop", "agentic", "loaded")
    /\ enriched # EmptyBag
    /\ incidents # EmptyBag
    /\ rca # {}

\* C2: in every reachable state a Signal has at most one EnrichedSignal,
\* also when two enrichment runs interleave over the same unprocessed
\* signals.
C2_OneEnrichedPerSignal == \A s \in raw : EnrichedCount(s) <= 1

\* C3: in every reachable state an Incident has at most one AnalysisResult,
\* also when two drivers run the analysis stage over the same unanalyzed
\* incident at the same time.
C3_OneResultPerIncident == \A id \in IncidentIds : Cardinality(ResultsOf(id)) <= 1

\* C4: no two Incidents ever share an incidentId, and an Incident that exists
\* is neither created a second time nor changed, under any interleaving of
\* fusion runs: every step leaves at most one row per id, and the row of an
\* id that had one is the row it had.
C4_IncidentCreatedOnce ==
    [][\A f \in BagToSet(incidents') :
          /\ IncidentCount(f.incident_id)' = 1
          /\ f.incident_id \in IncidentIds => f \in BagToSet(incidents)]_vars

\* C4 witness: a fusion run holds a group it loaded as unfused while the
\* Incident of that group has been committed by the other run
C4_Witness ==
    \E p \in Procs :
        /\ AtStage(p, "fusion", "loaded")
        /\ \E e \in proc[p].loaded : e.cid \in IncidentIds

\* the routing rule: ANALYZED at or above the threshold, else PENDING_DEEP
\* when the fallback is enabled, else ANALYZED_LOW_CONFIDENCE
Routed(confidence) ==
    IF confidence >= threshold THEN "llm"
    ELSE IF fallback THEN "pending_agentic"
    ELSE "llm_low_confidence"

\* C5: the Analysis stage stores, for every incident it loaded as unanalyzed,
\* an AnalysisResult whose state is ANALYZED if the Explainer's confidence is
\* >= the threshold (equality included), else PENDING_DEEP if the fallback is
\* enabled, else ANALYZED_LOW_CONFIDENCE; every row that enters the table
\* enters it in the state the rule gives.
C5_RoutingFromUnanalyzed ==
    [][/\ \A r \in rca' : r.id \notin RcaIds => r.method = Routed(r.confidence)
       /\ \A p \in Procs :
             AtStage(p, "rca", "loaded") /\ proc'[p] # proc[p] =>
                \A i \in proc[p].loaded :
                   \E r \in rca' \ rca : r.incident_id = i]_vars

\* C5 witness: a result whose confidence equals the threshold is ANALYZED
C5_Witness ==
    \E r \in rca : r.confidence = threshold /\ r.method = "llm"

\* C6: whenever an AnalysisResult is PENDING_DEEP, the deep-analysis fallback
\* is enabled and its suggested fix is the placeholder, not the Explainer's.
C6_PendingDeepPlaceholder ==
    \A r \in rca :
        r.method = "pending_agentic" => fallback /\ r.fix = Placeholder

\* C6 witness: confidence 0.55, threshold 80, fallback enabled: PENDING_DEEP
C6_Witness ==
    /\ threshold = 80
    /\ fallback
    /\ \E r \in rca : r.confidence = 55 /\ r.method = "pending_agentic"

\* C7: the state of a stored AnalysisResult changes only PENDING_DEEP ->
\* DEEP_ANALYZED; a stage run that begins (queries) when a result is ANALYZED,
\* ANALYZED_LOW_CONFIDENCE or DEEP_ANALYZED never modifies it: a terminal row
\* changes only under a deep-analysis run that loaded it as PENDING_DEEP, and
\* a row leaves the table only by a re-analysis request.
C7_OnlyPendingToDeep ==
    [][/\ \A r \in rca : \A r2 \in rca' :
             r2.id = r.id /\ r2.method # r.method =>
                r.method = "pending_agentic" /\ r2.method = "agentic"
       /\ \A r \in rca :
             r.method \in Terminal /\ r \notin rca' /\ r.id \in RcaIds' =>
                \E p \in Procs :
                   /\ AtStage(p, "agentic", "loaded")
                   /\ \E l \in proc[p].rows :
                         l.id = r.id /\ l.method = "pending_agentic"
       /\ \A r \in rca :
             r.id \notin RcaIds' =>
                proc["ondemand"] = Idle /\ proc'["ondemand"].kind = "reanalyze"]_vars

\* C7 witness: a deep-analysis run has begun after a result became
\* DEEP_ANALYZED and did not select it
C7_Witness ==
    \E p \in Procs :
        /\ AtStage(p, "agentic", "loaded")
        /\ \E r \in rca :
              r.method = "agentic" /\ r.id \notin {l.id : l \in proc[p].rows}

\* C8: every PENDING_DEEP -> DEEP_ANALYZED transition leaves a confidence
\* that is >= the pre-deep confidence and <= 0.95, for every threshold.
C8_DeepConfidenceMonotone ==
    [][\A r \in rca : \A r2 \in rca' :
          /\ r2.id = r.id
          /\ r.method = "pending_agentic"
          /\ r2.method = "agentic"
          => r2.confidence >= r.confidence /\ r2.confidence <= 95]_vars

\* the rows the step added to agentic_invocations
NewInvocations ==
    {v \in BagToSet(invocations') :
        CopiesIn(v, invocations') > CopiesIn(v, invocations)}

\* min(0.95, original + min(0.3, sum of the evidence weights))
RecomputedConfidence(original, f) ==
    LET boost == IF EvidenceSum(f) > 30 THEN 30 ELSE EvidenceSum(f)
    IN  IF original + boost > 95 THEN 95 ELSE original + boost

\* p's deep-analysis stage commits its batch in this step
DeepCommit(p) ==
    /\ AtStage(p, "agentic", "loaded")
    /\ proc'[p] # proc[p]
    /\ {l.id : l \in proc[p].rows} \subseteq RcaIds

\* what a committed deep analysis does to each row l it loaded; the
\* recomputation is required of every analysis, or (synthesizedOnly) of
\* those whose synthesis of the findings succeeded
DeepAnalysisSets(synthesizedOnly) ==
    \A p \in Procs :
        DeepCommit(p) =>
           \A l \in proc[p].rows :
              \E v \in NewInvocations :
                 /\ v.incident_id = l.incident_id
                 /\ \A r2 \in rca' : r2.id = l.id => r2.method = "agentic"
                 /\ (synthesizedOnly => ~v.context.malformed) =>
                       /\ v.improvement =
                             RecomputedConfidence(l.confidence, v.context)
                                - l.confidence
                       /\ \A r2 \in rca' :
                             r2.id = l.id /\ RowById(l.id).method = "pending_agentic"
                                => r2.confidence =
                                      RecomputedConfidence(l.confidence, v.context)
                       /\ v.tools = {} => EvidenceSum(v.context) = 0

\* C9 as stated: deep analysis of a PENDING_DEEP result always sets its
\* confidence to min(0.95, original + min(0.3, sum of the evidence weights)).
C9_DeepConfidenceFormula ==
    [][DeepAnalysisSets(FALSE)]_vars

\* C9, amended: when the synthesis of the findings succeeds, deep analysis of
\* a PENDING_DEEP result sets its confidence to min(0.95, original +
\* min(0.3, sum of the evidence weights)); when every Investigator returns
\* nothing the sum is 0, the stage does not fail, the state becomes
\* DEEP_ANALYZED and an InvestigationRecord is written.
C9_DeepConfidenceWhenSynthesized ==
    [][DeepAnalysisSets(TRUE)]_vars

\* C9 witness: a result deep-analyzed with no Investigator returning anything
\* and one deep-analyzed with findings whose weights exceed the cap of 0.3
C9_Witness ==
    /\ \E v \in BagToSet(invocations) :
          /\ v.tools = {}
          /\ v.improvement = 0
          /\ \E r \in rca : r.incident_id = v.incident_id /\ r.method = "agentic"
    /\ \E v \in BagToSet(invocations) :
          /\ EvidenceSum(v.context) > 30
          /\ v.improvement = 30

HasTerminalResult(id) ==
    \E r \in rca : r.incident_id = id /\ r.method \in Terminal

\* C10: while the loop keeps running its cycles, every Incident eventually
\* has an AnalysisResult in ANALYZED, ANALYZED_LOW_CONFIDENCE or
\* DEEP_ANALYZED, whether the Explainer and the Investigators return or fail.
\* Incidents and terminal results are never removed by the stages, so this
\* is: again and again every Incident there is has a terminal result.
C10_EveryIncidentTerminates ==
    []<>(\A id \in IncidentIds : HasTerminalResult(id))

\* C10 witness: an incident whose Investigators' findings could not be
\* synthesized is DEEP_ANALYZED while another incident is still unanalyzed
C10_Witness ==
    /\ \E v \in BagToSet(invocations) :
          /\ v.context.malformed
          /\ \E r \in rca : r.incident_id = v.incident_id /\ r.method = "agentic"
    /\ UnanalyzedIncidents # {}

\* the stage p is about to commit rolls back and raises instead
StageRaises(p) ==
    \/ /\ AtStage(p, "fusion", "loaded")
       /\ UniqueViolation(AddedContexts(proc[p]))
    \/ /\ AtStage(p, "agentic", "loaded")
       /\ ~({l.id : l \in proc[p].rows} \ proc[p].failed \subseteq RcaIds)

\* this step ends a cycle of driver p none of whose stages failed: p commits
\* the last stage of its plan (a cycle of the loop gets that far only when
\* no earlier stage raised; an on-demand cycle of the model is one stage)
CycleEndsClean(p) ==
    /\ proc[p].phase = "loaded"
    /\ Len(proc[p].plan) = 1
    /\ proc'[p] = Idle
    /\ ~StageRaises(p)

\* C11: at the end of every driver cycle that ran its stages without a stage
\* failure no AnalysisResult is PENDING_DEEP, for every driver that runs a
\* cycle (the periodic loop, the API runs, the re-analysis task).
C11_NoPendingAtCycleEnd ==
    [][\A p \in Procs :
          CycleEndsClean(p) => \A r \in rca' : r.method # "pending_agentic"]_vars

\* the on-demand process takes a re-analysis request in this step
ReanalysisStep ==
    proc["ondemand"] = Idle /\ proc'["ondemand"].kind = "reanalyze"

\* C12: a re-analysis request for an incident that has an AnalysisResult
\* leaves the incident with no AnalysisResult, and an Analysis run that then
\* loads the incident stores exactly one new AnalysisResult for it, routed
\* by the confidence rule.
C12_ReanalysisRestarts ==
    [][/\ ReanalysisStep =>
             \A r \in rca \ rca' :
                {x \in rca' : x.incident_id = r.incident_id} = {}
       /\ \A p \in Procs :
             AtStage(p, "rca", "loaded") /\ proc'[p] # proc[p] =>
                \A i \in proc[p].loaded :
                   /\ Cardinality({r \in rca' \ rca : r.incident_id = i}) = 1
                   /\ \A r \in rca' \ rca : r.method = Routed(r.confidence)]_vars

\* C13: an Explainer failure does not propagate: the Analysis run still
\* stores a result for every incident it loaded, and the result of a failed
\* Explainer call (the ones with the error root-cause text) has confidence
\* exactly 0.1 and the state the confidence rule gives for 0.1.
C13_ExplainerFailureDegrades ==
    [][\A p \in Procs :
          AtStage(p, "rca", "loaded") /\ proc'[p] # proc[p] =>
             /\ \A i \in proc[p].loaded :
                   \E r \in rca' \ rca : r.incident_id = i
             /\ \A r \in rca' \ rca :
                   r.root_cause = <<"llm_error">> =>
                      /\ r.confidence = 10
                      /\ r.method = Routed(10)]_vars

\* C13 witness: the result of a failed Explainer call is stored ANALYZED under
\* a threshold of 10
C13_Witness ==
    \E r \in rca :
        /\ r.root_cause = <<"llm_error">>
        /\ r.confidence = 10
        /\ threshold = 10
        /\ r.method = "llm"

\* min(0.85, original + 0.1)
BumpedConfidence(original) ==
    IF original + 10 > 85 THEN 85 ELSE original + 10

\* C14: when the synthesis of the findings fails, deep analysis still
\* completes: the PENDING_DEEP result becomes DEEP_ANALYZED, keeps its
\* pre-deep root cause, annotated with the note, and its pre-deep fix, its
\* confidence becomes min(0.85, original + 0.1), and an InvestigationRecord
\* with that improvement is written.
C14_SynthesisFailureFallsBack ==
    [][\A p \in Procs :
          DeepCommit(p) =>
             \A l \in proc[p].rows :
                \E v \in NewInvocations :
                   /\ v.incident_id = l.incident_id
                   /\ v.context.malformed =>
                         /\ v.improvement =
                               BumpedConfidence(l.confidence) - l.confidence
                         /\ \A r2 \in rca' :
                               r2.id = l.id /\ RowById(l.id).method = "pending_agentic"
                                  => /\ r2.method = "agentic"
                                     /\ r2.confidence = BumpedConfidence(l.confidence)
                                     /\ r2.root_cause = l.root_cause \o <<"partial">>
                                     /\ r2.fix = l.fix]_vars

\* C14 witness: a synthesis failed on a result of confidence 0.80, which is
\* DEEP_ANALYZED with the annotated root cause and confidence 0.85
C14_Witness ==
    \E v \in BagToSet(invocations) :
        /\ v.context.malformed
        /\ v.improvement = 5
        /\ \E r \in rca :
              /\ r.incident_id = v.incident_id
              /\ r.method = "agentic"
              /\ r.confidence = 85
              /\ r.root_cause = <<"llm", "partial">>
              /\ r.fix = Placeholder

\* an Analysis run of process p commits
AnalysisCommit(p) == AtStage(p, "rca", "loaded") /\ proc'[p] # proc[p]

\* C15: a PatternMatcher failure is never fatal: with a failing
\* PatternMatcher every incident of an Analysis batch still gets a stored
\* AnalysisResult, whose match list is empty and whose content is what the
\* Explainer returned.
C15_MatcherFailureDegrades ==
    [][\A p \in Procs :
          AnalysisCommit(p) /\ store = "broken" =>
             \A i \in proc[p].loaded :
                \E r \in rca' \ rca :
                   /\ r.incident_id = i
                   /\ r.matches = <<>>
                   /\ \E o \in ExplainerOutcomes :
                         /\ r.root_cause = GenerateLlmRca(o).root_cause
                         /\ r.confidence = GenerateLlmRca(o).confidence]_vars

\* C15 witness: the PatternMatcher fails and a result the Explainer produced
\* is stored with an empty match list
C15_Witness ==
    /\ store = "broken"
    /\ \E r \in rca :
          r.matches = <<>> /\ r.root_cause = <<"llm">> /\ r.confidence = 97

\* process p ends the given stage in this step: its commit, or its rollback
StageEnds(p, stage) ==
    /\ AtStage(p, stage, "loaded")
    /\ stage = "enrich" => proc[p].todo = <<>>
    /\ proc'[p] # proc[p]

\* the commit of the stage p ends in this step is rejected
CommitRejected(p) == faults' < faults \/ StageRaises(p)

\* the records of p's batch whose processing did not raise
Processed(p) == proc[p].loaded \ proc[p].failed

\* C16: a failure while processing one record never aborts the batch: at
\* every commit that the database accepts, with or without records that
\* failed, the output of every other record of the batch is stored (an enriched row per signal, an Incident per group, an
\* AnalysisResult per incident, whatever the Explainer did, and a deep
\* analysis per PENDING_DEEP result, whatever the Investigators returned),
\* after which the driver goes on to its next stage.
C16_RecordFailureIsolated ==
    [][\A p \in Procs :
          /\ StageEnds(p, "enrich") /\ ~CommitRejected(p) =>
                \A s \in Processed(p) : EnrichedCount(s)' = EnrichedCount(s) + 1
          /\ StageEnds(p, "fusion") /\ ~CommitRejected(p) =>
                \A c \in {e.cid : e \in proc[p].loaded} \ proc[p].failed :
                   IncidentCount(c)' = IncidentCount(c) + 1
          /\ StageEnds(p, "rca") /\ ~CommitRejected(p) =>
                \A i \in Processed(p) : \E r \in rca' \ rca : r.incident_id = i
          /\ StageEnds(p, "agentic") /\ ~CommitRejected(p) =>
                \A l \in proc[p].rows :
                   l.id \notin proc[p].failed =>
                      /\ \E r \in rca' : r.id = l.id /\ r.method = "agentic"
                      /\ \E v \in NewInvocations : v.incident_id = l.incident_id
          /\ \A stage \in Stages :
                StageEnds(p, stage) /\ ~CommitRejected(p) =>
                   proc'[p] = StageDone(proc[p])]_vars

\* C16 witness: in the first cycle of the loop the enrichment of signal 1
\* raised; the other signal of the batch is enriched and committed, and the
\* cycle is at its Fusion stage
C16_Witness ==
    /\ started["loop"] = 1
    /\ AtStage("loop", "fusion", "ready")
    /\ faults < MaxFaults
    /\ raw = Unrelated
    /\ 1 \notin EnrichedRawIds
    /\ MaxSignals \in EnrichedRawIds

\* C17: when the commit of a Fusion run is rejected because an Incident of
\* its batch was written by another run meanwhile, only that Incident is
\* skipped: every other Incident of the losing run's batch is stored.
C17_OnlyDuplicateSkipped ==
    [][\A p \in Procs :
          /\ StageEnds(p, "fusion")
          /\ UniqueViolation(AddedContexts(proc[p]))
          => \A f \in AddedContexts(proc[p]) :
                f.incident_id \notin IncidentIds =>
                   IncidentCount(f.incident_id)' = 1]_vars

\* the signals the anti-join of process_raw_events selects, before its limit
UnprocessedSignals == raw \ EnrichedRawIds

C19_LaterStagesStillRun ==
    [][\A p \in Procs : \A stage \in Stages :
          /\ StageEnds(p, stage)
          /\ CommitRejected(p)
          /\ Len(proc[p].plan) > 1
          => /\ proc'[p].plan = Tail(proc[p].plan)
             /\ proc'[p].phase = "ready"]_vars

\* C20: a stage failure is never fatal to the periodic driver: whenever a
\* stage of the loop has raised, the loop goes on and a later cycle invokes
\* the stages again, from Enrichment on.
C20_LoopSurvivesStageFailure ==
    (proc["loop"] = Sleeping) ~> AtStage("loop", "enrich", "loaded")

\* C20 witness: a stage of the loop raised while no signal was stored (no
\* record could fail, so the failure was the stage's), and a later cycle has
\* invoked Enrichment again
C20_Witness ==
    /\ faults < MaxFaults
    /\ raw = {}
    /\ AtStage("loop", "enrich", "loaded")

\* the loop stops in this step
LoopStops == proc["loop"] # Stopped /\ proc'["loop"] = Stopped

\* the output of every record of the batch process p holds is in the tables
\* after this step
BatchStored(p) ==
    /\ AtStage(p, "enrich", "loaded") =>
          \A s \in Processed(p) : s \in EnrichedRawIds'
    /\ AtStage(p, "fusion", "loaded") =>
          \A f \in AddedContexts(proc[p]) : f.incident_id \in IncidentIds'
    /\ AtStage(p, "rca", "loaded") =>
          \A i \in Processed(p) : \E r \in rca' : r.incident_id = i
    /\ AtStage(p, "agentic", "loaded") =>
          \A l \in proc[p].rows :
             l.id \notin proc[p].failed =>
                \A r \in rca' : r.id = l.id => r.method = "agentic"

\* C21: when the shutdown signal arrives while a cycle of the loop is in
\* progress, the batch in progress is completed and committed before the loop
\* stops: at the step in which the loop stops, the output of every record of
\* the batch it holds is stored.
C21_ShutdownCompletesBatch ==
    [][LoopStops => BatchStored("loop")]_vars

\* the stored EnrichedSignals of other signals that lie within +/- W minutes
\* of signal s and are related to it
RelatedInWindow(s) ==
    {e \in BagToSet(enriched) :
        /\ e.raw # s
        /\ SignalOf(e.raw).ts - SignalOf(s).ts <= CorrelationWindow
        /\ SignalOf(s).ts - SignalOf(e.raw).ts <= CorrelationWindow
        /\ EventsAreRelated(SignalOf(s), SignalOf(e.raw))}

\* C22: the correlation id assigned to a signal is that of a stored
\* EnrichedSignal within +/- W minutes that is related to it, or, only when no
\* stored EnrichedSignal of the window is related, an id that no stored
\* EnrichedSignal carries.
C22_CorrelationIdAssigned ==
    [][\A p \in Procs :
          /\ AtStage(p, "enrich", "loaded")
          /\ Len(proc'[p].pending) = Len(proc[p].pending) + 1
          => LET s == Head(proc[p].todo)
                 cid == proc'[p].pending[Len(proc'[p].pending)].cid
             IN  IF RelatedInWindow(s) # {}
                 THEN cid \in {e.cid : e \in RelatedInWindow(s)}
                 ELSE cid \notin {e.cid : e \in BagToSet(enriched)}]_vars

\* C22 witness: signals 1 and 2 (3 minutes apart) carry one correlation id;
\* signal 3, of the same source but 27 minutes later, carries another
C22_Witness ==
    \E a, b, c \in BagToSet(enriched) :
        /\ a.raw = 1 /\ b.raw = 2 /\ c.raw = 3
        /\ a.cid = b.cid
        /\ c.cid # a.cid
        /\ EventsAreRelated(SignalOf(3), SignalOf(1))

\* C23: two signals of the same source with severities critical and high,
\* 3 minutes apart (within the correlation window), carry the same
\* correlation id once both are enriched, in one batch or in successive ones.
C23_ScenarioASameId ==
    /\ SignalOf(1).source = SignalOf(2).source
    /\ SignalOf(2).ts - SignalOf(1).ts <= CorrelationWindow
    /\ \A a, b \in BagToSet(enriched) :
          a.raw = 1 /\ b.raw = 2 => a.cid = b.cid

\* the severity band of a signal: 1 for critical / high, 2 for medium / low /
\* info, 0 (no band) otherwise
Band(severity) ==
    IF severity \in {"critical", "high"} THEN 1
    ELSE IF severity \in {"medium", "low", "info"} THEN 2
    ELSE 0

\* C24: two signals are related exactly when they have the same source, or
\* their severities are in the same band, or their metadata share at least
\* 2 keys; a signal without severity is in no band.
C24_RelatedExactly ==
    calc.op = "related" /\ Applied =>
        calc.out = \/ calc.a.source = calc.b.source
                   \/ Band(calc.a.severity) # 0
                        /\ Band(calc.a.severity) = Band(calc.b.severity)
                   \/ Cardinality(calc.a.meta \cap calc.b.meta) >= 2

\* C24 witness: two signals of different sources, one without severity, are
\* related by two common metadata keys alone
C24_Witness ==
    /\ calc.op = "related"
    /\ Applied
    /\ calc.out
    /\ calc.a.source # calc.b.source
    /\ calc.a.severity = "none"
    /\ calc.b.severity = "none"
    /\ Cardinality(calc.a.meta \cap calc.b.meta) = 2

\* C25: for every signal and every history the anomaly score s satisfies
\* 0 <= s <= 1 (as a fraction: 0 <= num <= den with den > 0).
C25_ScoreInUnitInterval ==
    calc.op = "score" /\ Applied =>
        /\ calc.out.den > 0
        /\ 0 <= calc.out.num
        /\ calc.out.num <= calc.out.den

\* C25 witness: 95 of the 100 events of the history are similar, so that
\* 1 - 2 * frequency is negative and the score is 0
C25_Witness ==
    /\ calc.op = "score"
    /\ Applied
    /\ InHistory(calc.e, calc.table[2], 2)
    /\ calc.table[2].n = 95
    /\ SimilarMessages(calc.e.msg, calc.table[2].msg)
    /\ calc.out = [num |-> 0, den |-> HistoryLimit]

\* the number of events the history takes from the run at timestamp t, given
\* the number already taken from newer runs
Taken(t, newer) ==
    IF /\ calc.table[t].source = calc.e.source
       /\ calc.table[t].kind = calc.e.kind
       /\ t < calc.e.ts
    THEN Min(calc.table[t].n, 100 - newer)
    ELSE 0

\* of these, the similar ones
AlikeTaken(t, newer) ==
    IF SimilarMessages(calc.e.msg, calc.table[t].msg) THEN Taken(t, newer)
    ELSE 0

\* C26: with fewer than 10 earlier signals of the same source and kind the
\* score is exactly 1/2 whatever the messages; with 10 or more it is
\* clamp(1 - 2 * similarCount / historyCount, 0, 1), the history being the (at
\* most) 100 most recent signals strictly before the signal's timestamp.
C26_ScoreFormula ==
    calc.op = "score" /\ Applied =>
        LET historyCount == Taken(2, 0) + Taken(1, Taken(2, 0))
            similarCount == AlikeTaken(2, 0) + AlikeTaken(1, Taken(2, 0))
            \* historyCount * (1 - 2 * similarCount / historyCount)
            scaled == historyCount - 2 * similarCount
        IN  IF historyCount < 10
            THEN 2 * calc.out.num = calc.out.den
            ELSE calc.out.num * historyCount
                    = calc.out.den * Max(0, Min(historyCount, scaled))

\* C26 witness: 95 events at the signal's own timestamp are left out, the
\* 95 dissimilar events before it fill the history but for 5 places, which
\* 5 of the 95 older, similar events take: 1 - 2 * 5 / 100
C26_Witness ==
    /\ calc.op = "score"
    /\ Applied
    /\ calc.table[3] = [n |-> 95, source |-> calc.e.source,
                        kind |-> calc.e.kind, msg |-> calc.e.msg]
    /\ Taken(2, 0) = 95
    /\ AlikeTaken(2, 0) = 0
    /\ calc.table[1].n = 95
    /\ AlikeTaken(1, 95) = 5
    /\ calc.out = [num |-> 90, den |-> 100]

\* C27: for every correlation group and every set of fusion weights the
\* engine accepts, the fusion score s satisfies 0 <= s <= 1.
C27_FusionScoreInUnitInterval ==
    calc.op = "fusion" /\ Applied => 0 <= calc.out /\ calc.out <= 10000

\* the weights of the configuration multiplied by a factor
Scaled(weights, factor) ==
    [temporal |-> factor * weights.temporal,
     semantic |-> factor * weights.semantic,
     causal |-> factor * weights.causal]

\* C28: multiplying the three weights by the same positive factor leaves the
\* fusion score of every correlation group unchanged (here: positive weights,
\* factor 2).
C28_WeightsNormalized ==
    /\ calc.op = "fusion"
    /\ Applied
    /\ \A w \in {calc.weights.temporal, calc.weights.semantic,
                 calc.weights.causal} : w > 0
    => calc.out = CalculateFusionScore(calc.temporal, calc.semantic,
                                       calc.causal, Scaled(calc.weights, 2))

\* a correlation group of 4 events spanning 30 seconds with an average
\* inter-arrival interval of 10 seconds, after its temporal context was made
ScenarioC ==
    /\ calc.op = "temporal"
    /\ Applied
    /\ calc.out.event_count = 4
    /\ calc.out.duration_seconds = 30
    /\ calc.out.interval_sum = 10 * calc.out.interval_count

\* C29 as stated: for a group of 4 events spanning 30 seconds with an average
\* interval of 10 seconds, is_burst_pattern is true and temporal_intensity is
\* 8.0.
C29_ScenarioCIntensityEight ==
    ScenarioC =>
        /\ calc.out.is_burst_pattern
        /\ calc.out.temporal_intensity.num = 8 * calc.out.temporal_intensity.den

\* C29 amended: for such a group is_burst_pattern is true and
\* temporal_intensity is 4 / max(30 / 60, 1) = 4.0.
C29_ScenarioCIntensityFour ==
    ScenarioC =>
        /\ calc.out.is_burst_pattern
        /\ calc.out.temporal_intensity.num = 4 * calc.out.temporal_intensity.den

\* C29 witness: the four events at 0, 10, 20 and 30 seconds, returned out of
\* order
C29_Witness ==
    /\ ScenarioC
    /\ calc.timestamps = <<20, 0, 30, 10>>
    /\ calc.out.is_burst_pattern
    /\ calc.out.temporal_intensity = [num |-> 240, den |-> 60]

\* the fused contexts stored under a correlation id
IncidentsOf(table, c) == {f \in BagToSet(table) : f.incident_id = c}

\* C30: once an Incident exists for a correlation id, no step of any Fusion
\* run (nor of another stage) changes it or stores another context under its
\* id, also when enriched signals with that id were stored after it.
C30_IncidentFrozen ==
    [][\A f \in BagToSet(incidents) :
          /\ IncidentsOf(incidents', f.incident_id)
                = IncidentsOf(incidents, f.incident_id)
          /\ CopiesIn(f, incidents') = CopiesIn(f, incidents)]_vars

\* C30 witness: a Fusion run has read its input while an Incident exists
\* whose correlation id a signal enriched after it carries; the run has left
\* that signal out
C30_Witness ==
    \E p \in Procs : \E f \in BagToSet(incidents) : \E e \in BagToSet(enriched) :
        /\ AtStage(p, "fusion", "loaded")
        /\ e.cid = f.incident_id
        /\ e.raw \notin f.members
        /\ e \notin proc[p].loaded

\* the agentic_invocations rows of an incident, counted with multiplicity
RecordCount(table, i) ==
    CountIn(table, {a \in BagToSet(table) : a.incident_id = i})

\* the results of incident i that this step takes from PENDING_DEEP to
\* DEEP_ANALYZED
Deepened(i) ==
    {r \in rca : /\ r.incident_id = i
                 /\ r.method = "pending_agentic"
                 /\ \E r2 \in rca' : r2.id = r.id /\ r2.method = "agentic"}

\* C31: every step adds, for every incident, exactly as many
\* InvestigationRecords as results of the incident go from PENDING_DEEP to
\* DEEP_ANALYZED in it (one per transition, none otherwise), whichever
\* drivers run the Deep-Analysis stage at the same time; and no step (the
\* re-analysis included) changes or removes a stored InvestigationRecord.
C31_OneRecordPerTransition ==
    [][/\ \A i \in IncidentIds :
             RecordCount(invocations', i)
                = RecordCount(invocations, i) + Cardinality(Deepened(i))
       /\ \A a \in BagToSet(invocations) :
             CopiesIn(a, invocations') >= CopiesIn(a, invocations)]_vars

\* C32: a configuration with a confidence threshold outside 0..100 (or with
\* malformed fusion weights) is rejected at startup: the loop starts no cycle
\* and no batch is processed under it.
C32_MalformedConfigRejected ==
    threshold \notin 0 .. 100 =>
        /\ started["loop"] = 0
        /\ proc["loop"] = Idle
        /\ enriched = EmptyBag

\* C33: no step of a stage or of a re-analysis removes a stored Signal, nor
\* changes or removes an EnrichedSignal: every enriched row, with its
\* correlation id and anomaly score, is in the table after the step as often
\* as before.
C33_SignalsAndEnrichedFrozen ==
    [][/\ raw \subseteq raw'
       /\ \A e \in BagToSet(enriched) :
             CopiesIn(e, enriched') >= CopiesIn(e, enriched)]_vars

\* C33 witness: the signal of an incident was enriched, the incident fused,
\* analyzed and deep-analyzed, and a re-analysis request has deleted its
\* result
C33_Witness ==
    \E e \in BagToSet(enriched) : \E a \in BagToSet(invocations) :
        /\ e.raw \in raw
        /\ a.incident_id = e.cid
        /\ proc["ondemand"].kind = "reanalyze"
        /\ \A r \in rca : r.incident_id # e.cid

\* C34: an ingest_batch that returns has stored every event of the batch as a
\* new Signal and returns one identifier per event, the k-th identifying the
\* stored Signal of the k-th event; an ingest_batch that fails stores no
\* Signal of the batch.
C34_BatchStoredOrNothing ==
    [][calc' # calc =>
          LET events == calc'.events
              ids == calc'.out
          IN  IF calc'.raised THEN raw' = raw
              ELSE /\ raw' = raw \cup Range(events)
                   /\ Len(ids) = Len(events)
                   /\ \A k \in DOMAIN events :
                         /\ ids[k] \in raw' \ raw
                         /\ SignalOf(ids[k]) = SignalOf(events[k])]_vars

\* C34 witness: after a batch whose commit failed, a batch of three events
\* sent in the order 2, 3, 1 was stored and its ids returned
C34_Witness ==
    /\ calc = [op |-> "ingest_batch", events |-> <<2, 3, 1>>,
               raised |-> FALSE, out |-> <<2, 3, 1>>]
    /\ raw = {1, 2, 3}
    /\ faults < MaxFaults

\* enriched_event.id and rca_record.id right after session.add(): the primary
\* key is assigned by the INSERT of the flush, which only the commit issues
\* (autoflush is off); until then the attribute is None
UnflushedId(row) == "None"

\* the list a stage returns: the entries whose id was truthy when the record
\* had been added (`if enriched_id:`, `if result_id:`)
ReturnedFor(added) == SelectSeq(added, LAMBDA row : UnflushedId(row) # "None")

\* process_raw_events: enriched_ids at `return`
ProcessRawEventsReturn(q) == ReturnedFor(q.pending)

\* analyze_incidents: analyzed_ids at `return`
AnalyzeIncidentsReturn(q) == ReturnedFor(Ascending(q.loaded \ q.failed))

\* C35: a stage call that commits returns one entry per row it committed:
\* process_raw_events one per EnrichedSignal, analyze_incidents one per
\* AnalysisResult.
C35_ReturnNamesCommitted ==
    [][\A p \in Procs :
          /\ /\ AtStage(p, "enrich", "loaded")
             /\ proc'[p] # proc[p]
             /\ enriched' # enriched
             => Len(ProcessRawEventsReturn(proc[p]))
                   = BagCardinality(enriched') - BagCardinality(enriched)
          /\ /\ AtStage(p, "rca", "loaded")
             /\ proc'[p] # proc[p]
             /\ rca' # rca
             => Len(AnalyzeIncidentsReturn(proc[p]))
                   = Cardinality(rca' \ rca)]_vars

\* C36: when a Fusion run of the loop completes, every correlation group
\* that has an EnrichedSignal has an Incident, whatever the timestamps of its
\* signals and the time of the run.
C36_EveryGroupFused ==
    [][/\ AtStage("loop", "fusion", "loaded")
       /\ proc'["loop"] = StageDone(proc["loop"])
       => \A e \in BagToSet(enriched) : e.cid \in IncidentIds']_vars

\* the anomaly scores of the members that qualify as root-cause candidates
Qualifying(events) ==
    {events[k].anomaly_score : k \in {i \in DOMAIN events :
        \/ i = 1 /\ events[i].anomaly_score > 50
        \/ events[i].anomaly_score > 80}}

\* C37: rootCauseConfidence is the greatest anomaly score among the members
\* that qualify as root-cause candidates (0 when none qualifies); the
\* de-duplication and the cap never lower it.
C37_GreatestCandidateScore ==
    calc.op = "root_cause" /\ Applied =>
        /\ \A s \in Qualifying(calc.events) : calc.out >= s
        /\ calc.out \in Qualifying(calc.events) \cup {0}

\* C38: in every reachable state each EnrichedSignal references a stored
\* Signal, each Incident's id is the correlation id of an EnrichedSignal,
\* each AnalysisResult names an existing Incident, and each DEEP_ANALYZED
\* AnalysisResult has an InvestigationRecord for its incident.
C38_ReferencesResolve ==
    /\ \A e \in BagToSet(enriched) : e.raw \in raw
    /\ \A f \in BagToSet(incidents) :
          \E e \in BagToSet(enriched) : e.cid = f.incident_id
    /\ \A r \in rca : r.incident_id \in IncidentIds
    /\ \A r \in rca :
          r.method = "agentic" =>
             \E a \in BagToSet(invocations) : a.incident_id = r.incident_id

\* C38 witness: two incidents with their signals, one of them with a
\* DEEP_ANALYZED result and its InvestigationRecord
C38_Witness ==
    /\ Cardinality(IncidentIds) >= 2
    /\ \E r \in rca :
          /\ r.method = "agentic"
          /\ \E a \in BagToSet(invocations) : a.incident_id = r.incident_id
          /\ \E e \in BagToSet(enriched) : e.cid = r.incident_id /\ e.raw \in raw

\* C39: a re-analysis request for an id that has no Incident is answered
\* with not-found and changes nothing (no AnalysisResult deleted, no task
\* scheduled); a task is scheduled only by a request for an existing
\* Incident, and that request deletes no AnalysisResult of another incident.
C39_UnknownIncidentChangesNothing ==
    [][/\ (/\ calc' # calc
           /\ calc'.op = "reanalyze"
           /\ calc'.incident \notin IncidentIds)
          => /\ calc'.status = 404
             /\ rca' = rca
             /\ proc' = proc
             /\ started' = started
             /\ UNCHANGED <<raw, enriched, incidents, invocations>>
       /\ (proc["ondemand"] = Idle /\ proc'["ondemand"] # Idle)
          => /\ calc'.op = "reanalyze"
             /\ calc'.status = 200
             /\ calc'.incident \in IncidentIds
             /\ \A r \in rca \ rca' : r.incident_id = calc'.incident
             /\ \A j \in IncidentIds \ {calc'.incident} :
                   ResultsOf(j)' = ResultsOf(j)]_vars

\* C39 witness: of two incidents analyzed in one cycle, a request for one
\* has deleted its result, left the other's and scheduled the task; then a
\* request for an id without Incident has been answered with not-found
C39_Witness ==
    /\ calc = Response(0, 404)
    /\ Cardinality(IncidentIds) = 2
    /\ proc["ondemand"] = Begun("reanalyze")
    /\ \E i \in IncidentIds :
          /\ ResultsOf(i) = {}
          /\ \A j \in IncidentIds \ {i} : ResultsOf(j) # {}

====
